---- MODULE Spec2Model ----
(***************************************************************************)
(* Usability Testing Tool (src/app.py): a Streamlit script.  Every browser *)
(* session runs main() in its own script thread against the same four CSV  *)
(* files.  The model keeps, per session, st.session_state (participant_id, *)
(* task_start_time, task_duration) and the position of the session inside  *)
(* save_to_csv, and, shared, the four files as sequences of lines.         *)
(*                                                                         *)
(* Time is counted in ticks of 1/3 millisecond, so that round(x, 3) is a   *)
(* real rounding and never meets a tie.  CSV cells and session values are  *)
(* records [k, v] so that values of different Python types stay apart.     *)
(***************************************************************************)
EXTENDS Integers, Sequences, FiniteSets, TLC

\* ---------------------------------------------------------------- bounds
MaxRecords == 3      \* submissions that pass validation in a run of SpecSession
MaxShared == 2       \* submissions that pass validation in a run of Spec
MaxTicks == 1        \* clock readings after the first one
MaxRows == 3         \* rows of a task dataset handed to the report

Sessions == {"s1", "s2"}

\* ------------------------------------------------------------- constants
CONSENT_CSV == "consent_data.csv"
DEMOGRAPHIC_CSV == "demographic_data.csv"
TASK_CSV == "task_data.csv"
EXIT_CSV == "exit_data.csv"
Datasets == {CONSENT_CSV, DEMOGRAPHIC_CSV, TASK_CSV, EXIT_CSV}
DependentDatasets == {DEMOGRAPHIC_CSV, TASK_CSV, EXIT_CSV}

TASK_SUCCESS_OPTIONS == <<"Success", "Partial", "Fail", "Abandoned">>
DEFAULT_TASKS == <<"Task 1: Find an item", "Task 2: Create an account",
                   "Task 3: Change a setting">>
\* A task name is its index in DEFAULT_TASKS (the names sort in that order);
\* 0 is a missing task name.
TaskNames == 1..Len(DEFAULT_TASKS)
Outcomes == {TASK_SUCCESS_OPTIONS[i] : i \in 1..Len(TASK_SUCCESS_OPTIONS)}

\* What the sessions select on the Task page.
FormTasks == {1}
FormOutcomes == {"Success"}

\* uuid4()[:8] tokens the generator may draw, and what a user may type into
\* the Participant ID box: nothing, digits only, or an id that looks
\* generated.  NumericTexts and NaTexts are the cells read_csv parses to a
\* number and to NaN.
GeneratedIds == {"P-1a2b3c4d", "P-9f8e7d6c"}
TypedIds == {"", "123"} \cup GeneratedIds
NumericTexts == {"123"}
NaTexts == {"", "NA"}

\* ------------------------------------------------------------ cell values
Absent == [k |-> "absent", v |-> 0]      \* key not in st.session_state
None == [k |-> "none", v |-> 0]
Num(n) == [k |-> "num", v |-> n]
Empty == [k |-> "empty", v |-> 0]        \* the "" written for no duration
Text == [k |-> "text", v |-> 0]          \* a non-numeric, non-blank string
Blank == [k |-> "blank", v |-> 0]        \* a string of spaces only
NaN == [k |-> "nan", v |-> 0]

VARIABLES now, participant_id, task_start_time, task_duration,
          pc, pending, files, quota, ev, report

vars == <<now, participant_id, task_start_time, task_duration,
          pc, pending, files, quota, ev, report>>

session_state == <<participant_id, task_start_time, task_duration>>

\* ------------------------------------------------------------------ lines
Header == [h |-> TRUE, participant_id |-> "", consent_given |-> TRUE,
           task_name |-> 0, success |-> "", duration_seconds |-> Empty]

Row(pid, given, task, success, dur) ==
    [h |-> FALSE, participant_id |-> pid, consent_given |-> given,
     task_name |-> task, success |-> success, duration_seconds |-> dur]

NoFile == [exists |-> FALSE, lines |-> <<>>]
NoPending == [csv_file |-> "", data_dict |-> Header]
NoReport == [success_by_task |-> <<>>, avg_dur |-> <<>>]
\* What the latest step did: the session, the operation, what the page showed
\* for it, and the state of the consent checkbox when it was pressed.
Event(s, op, res) == [s |-> s, op |-> op, res |-> res, ticked |-> TRUE]


\* ---------------------------------------------------------------- helpers
\* round(duration_val, 3): ticks of 1/3 ms to whole milliseconds.
Round3(d) == (2 * d + 3) \div 6

Truthy(x) == x.k = "num" /\ x.v # 0

Overlay(new, old) ==
    [i \in 1..(IF Len(new) > Len(old) THEN Len(new) ELSE Len(old)) |->
        IF i <= Len(new) THEN new[i] ELSE old[i]]

\* load_from_csv: pd.read_csv of an existing file, an empty frame otherwise.
\* read_csv raises on a file of no lines, and takes the first line for the
\* header whatever it holds.
load_from_csv(f) ==
    IF ~f.exists THEN [raised |-> FALSE, columns |-> FALSE, rows |-> <<>>]
    ELSE IF f.lines = <<>> THEN [raised |-> TRUE, columns |-> FALSE, rows |-> <<>>]
    ELSE [raised |-> FALSE, columns |-> Head(f.lines).h, rows |-> Tail(f.lines)]

\* The str members of the participant_id column after read_csv's type
\* inference: a column of digits and NA spellings only is parsed to numbers,
\* and an NA spelling is parsed to NaN in any column.
ParticipantIdStrings(df) ==
    LET cells == {df.rows[i].participant_id : i \in 1..Len(df.rows)}
    IN  IF ~df.columns \/ cells \subseteq (NumericTexts \cup NaTexts) THEN {}
        ELSE cells \ NaTexts

NeedsConsentMutant(consent_df, pid) == consent_df.rows = <<>>

\* consent_df.empty or pid not in set(consent_df.get("participant_id", []))
NeedsConsent(consent_df, pid) ==
    consent_df.rows = <<>> \/ pid \notin ParticipantIdStrings(consent_df)

EnsureParticipantMutant(cur) == GeneratedIds

\* ensure_participant(): the ids the session may hold after the call.
EnsureParticipant(cur) == IF cur = "" THEN GeneratedIds ELSE {cur}

DurationField(duration_val) ==
    IF Truthy(duration_val) THEN Num(Round3(duration_val.v)) ELSE Empty

Connected(s) == participant_id[s] # ""
Idle(s) == Connected(s) /\ pc[s] = "idle"

\* ----------------------------------------------------------------- report
RECURSIVE SumSeq(_)
SumSeq(q) == IF q = <<>> THEN 0 ELSE Head(q) + SumSeq(Tail(q))

RECURSIVE SortedSeq(_)
\* The members of a set of integers, ascending.
SortedSeq(S) ==
    IF S = {} THEN <<>>
    ELSE LET m == CHOOSE x \in S : \A y \in S : x <= y
         IN  <<m>> \o SortedSeq(S \ {m})

\* read_csv of the task_name column: a missing name is NaN.  groupby drops
\* the NaN keys and sorts the others.
GroupKeys(rows) ==
    SortedSeq({rows[i].task_name : i \in 1..Len(rows)} \ {0})

GroupRows(rows, key) == SelectSeq(rows, LAMBDA r : r.task_name = key)

\* success_map, in halves: Success 1.0, Partial 0.5, Fail 0.0, Abandoned 0.0.
\* .map() gives NaN for any other value.
MapSuccess(cell) ==
    CASE cell = "Success" -> Num(2)
      [] cell = "Partial" -> Num(1)
      [] cell = "Fail" -> Num(0)
      [] cell = "Abandoned" -> Num(0)
      [] OTHER -> NaN

FillNaMutant(x, value) == x

FillNa(x, value) == IF x = NaN THEN Num(value) ELSE x

\* Series.mean(): the NaN entries are skipped; [sum, n] stands for sum / n,
\* and n = 0 for the NaN mean of no entry.
Mean(values) ==
    LET nums == SelectSeq(values, LAMBDA x : x.k = "num")
    IN  [sum |-> SumSeq([i \in 1..Len(nums) |-> nums[i].v]), n |-> Len(nums)]

\* a.sum / a.n < b.sum / b.n
MeanLess(a, b) == a.sum * b.n < b.sum * a.n

RECURSIVE InsertDesc(_, _)
InsertDesc(sorted, e) ==
    IF sorted = <<>> THEN <<e>>
    ELSE IF MeanLess(Head(sorted).mean, e.mean) THEN <<e>> \o sorted
    ELSE <<Head(sorted)>> \o InsertDesc(Tail(sorted), e)

RECURSIVE InsertAsc(_, _)
InsertAsc(sorted, e) ==
    IF sorted = <<>> THEN <<e>>
    ELSE IF MeanLess(e.mean, Head(sorted).mean) THEN <<e>> \o sorted
    ELSE <<Head(sorted)>> \o InsertAsc(Tail(sorted), e)

RECURSIVE SortValuesMutant(_)
SortValuesMutant(q) ==
    IF q = <<>> THEN <<>>
    ELSE InsertAsc(SortValuesMutant(SubSeq(q, 1, Len(q) - 1)), q[Len(q)])

RECURSIVE SortValues(_)
\* sort_values(ascending=False): descending, equal means in their group order.
SortValues(q) ==
    IF q = <<>> THEN <<>>
    ELSE InsertDesc(SortValues(SubSeq(q, 1, Len(q) - 1)), q[Len(q)])

SuccessByTask(rows) ==
    LET keys == GroupKeys(rows)
        score(r) == FillNa(MapSuccess(r.success), 0)
        group(key) == LET g == GroupRows(rows, key)
                      IN  [i \in 1..Len(g) |-> score(g[i])]
        means == [i \in 1..Len(keys) |->
                    [task_name |-> keys[i], mean |-> Mean(group(keys[i]))]]
    IN  SortValues(means)

\* read_csv of the duration_seconds column: numbers when every cell is a
\* number or empty, strings otherwise; an empty cell is NaN either way.
ReadDuration(cell, numeric) ==
    CASE cell = Empty -> NaN
      [] cell.k = "num" -> IF numeric THEN cell ELSE [k |-> "numstr", v |-> cell.v]
      [] OTHER -> cell

\* isinstance(x, (int, float)) or (isinstance(x, str) and x.strip() != "")
NonEmptyDuration(x) == x.k \in {"num", "nan", "numstr", "text"}

ToNumericMutant(x) == IF x.k \in {"num", "numstr"} THEN Num(x.v) ELSE Num(0)

\* pd.to_numeric(errors="coerce")
ToNumeric(x) == IF x.k \in {"num", "numstr"} THEN Num(x.v) ELSE NaN

AvgDur(rows) ==
    LET numeric == \A i \in 1..Len(rows) : rows[i].duration_seconds.k \in {"empty", "num"}
        read == [i \in 1..Len(rows) |->
                   [rows[i] EXCEPT !.duration_seconds = ReadDuration(@, numeric)]]
        dur == SelectSeq(read, LAMBDA r : NonEmptyDuration(r.duration_seconds))
        keys == GroupKeys(dur)
        group(key) == LET g == GroupRows(dur, key)
                      IN  [i \in 1..Len(g) |-> ToNumeric(g[i].duration_seconds)]
        means == [i \in 1..Len(keys) |->
                    [task_name |-> keys[i], mean |-> Mean(group(keys[i]))]]
    IN  SelectSeq(means, LAMBDA m : m.mean.n # 0)

\* The Report tab, which every script run renders: the datasets are loaded in
\* turn, and the task aggregates are computed when the task frame has rows.
\* A load that raises, or a task frame without its columns, ends the run.
RenderReport(fs) ==
    LET consent_df == load_from_csv(fs[CONSENT_CSV])
        demo_df == load_from_csv(fs[DEMOGRAPHIC_CSV])
        task_df == load_from_csv(fs[TASK_CSV])
    IN  IF consent_df.raised \/ demo_df.raised \/ task_df.raised
           \/ (task_df.rows # <<>> /\ ~task_df.columns)
        THEN NoReport
        ELSE [success_by_task |-> SuccessByTask(task_df.rows),
              avg_dur |-> AvgDur(task_df.rows)]

\* ------------------------------------------------------------------- Init
Init ==
    /\ now = 1
    /\ participant_id = [s \in Sessions |-> ""]
    /\ task_start_time = [s \in Sessions |-> Absent]
    /\ task_duration = [s \in Sessions |-> Absent]
    /\ pc = [s \in Sessions |-> "idle"]
    /\ pending = [s \in Sessions |-> NoPending]
    /\ files = [d \in Datasets |-> NoFile]
    /\ quota = MaxShared
    /\ ev = Event("", "init", "none")
    /\ report = NoReport

\* ---------------------------------------------------------------- actions
\* time.time() moves on between two script runs, or does not.
Tick ==
    /\ now < 1 + MaxTicks
    /\ now' = now + 1
    /\ ev' = Event("", "tick", "none")
    /\ UNCHANGED <<session_state, pc, pending, files, quota, report>>

\* The first script run of a session: the sidebar's ensure_participant().
Connect(s) ==
    /\ ~Connected(s)
    /\ \E pid \in EnsureParticipant(participant_id[s]) :
          participant_id' = [participant_id EXCEPT ![s] = pid]
    /\ ev' = Event(s, "connect", "none")
    /\ report' = RenderReport(files)
    /\ UNCHANGED <<now, task_start_time, task_duration, pc, pending, files, quota>>

\* The user edits the Participant ID box; the rerun starts with the sidebar's
\* ensure_participant().
EditParticipant(s) ==
    /\ Idle(s)
    /\ \E typed \in TypedIds :
          \E pid \in EnsureParticipant(typed) :
             participant_id' = [participant_id EXCEPT ![s] = pid]
    /\ ev' = Event(s, "edit", "none")
    /\ report' = RenderReport(files)
    /\ UNCHANGED <<now, task_start_time, task_duration, pc, pending, files, quota>>

\* A script run with no button pressed (a widget changed, the page reloaded).
ViewReport(s) ==
    /\ Idle(s)
    /\ ev' = Event(s, "rerun", "none")
    /\ report' = RenderReport(files)
    /\ UNCHANGED <<now, session_state, pc, pending, files, quota>>

\* A handler reaches save_to_csv(data_dict, csv_file).
BeginSave(s, csv_file, data_dict) ==
    /\ quota > 0
    /\ quota' = quota - 1
    /\ pending' = [pending EXCEPT ![s] = [csv_file |-> csv_file, data_dict |-> data_dict]]
    /\ pc' = [pc EXCEPT ![s] = "save"]
    /\ UNCHANGED <<files, report>>

\* A handler that only shows a warning, or a run that ends in an exception.
Rejected(s, event) ==
    /\ ev' = event
    /\ report' = IF event.res = "error" THEN NoReport ELSE RenderReport(files)
    /\ UNCHANGED <<session_state, pc, pending, files, quota>>

ConsentRefusedMutant(ticked) == FALSE

\* if not consent_given
ConsentRefused(ticked) == ~ticked

SubmitConsent(s) ==
    /\ Idle(s)
    /\ \E ticked \in BOOLEAN :
          IF ConsentRefused(ticked)
          THEN Rejected(s, [Event(s, "consent", "warning") EXCEPT !.ticked = ticked])
          ELSE /\ \E pid \in EnsureParticipant(participant_id[s]) :
                    participant_id' = [participant_id EXCEPT ![s] = pid]
               /\ BeginSave(s, CONSENT_CSV,
                            Row(participant_id'[s], TRUE, 0, "", Empty))
               /\ ev' = [Event(s, "consent", "accepted") EXCEPT !.ticked = ticked]
               /\ UNCHANGED <<task_start_time, task_duration>>
    /\ UNCHANGED now

\* The guard shared by the three dependent submissions: load the consent
\* dataset, ensure_participant(), test membership.
Dependent(s, op, csv_file, task, success, dur) ==
    LET consent_df == load_from_csv(files[CONSENT_CSV])
    IN  IF consent_df.raised THEN Rejected(s, Event(s, op, "error"))
        ELSE \E pid \in EnsureParticipant(participant_id[s]) :
                   /\ participant_id' = [participant_id EXCEPT ![s] = pid]
                   /\ IF NeedsConsent(consent_df, pid)
                      THEN /\ ev' = Event(s, op, "warning")
                           /\ report' = RenderReport(files)
                           /\ UNCHANGED <<pc, pending, files, quota>>
                      ELSE /\ BeginSave(s, csv_file, Row(pid, TRUE, task, success, dur))
                           /\ ev' = Event(s, op, "accepted")
                   /\ UNCHANGED <<task_start_time, task_duration>>

SubmitDemographics(s) ==
    /\ Idle(s)
    /\ Dependent(s, "demographics", DEMOGRAPHIC_CSV, 0, "", Empty)
    /\ UNCHANGED now

SubmitExit(s) ==
    /\ Idle(s)
    /\ Dependent(s, "exit", EXIT_CSV, 0, "", Empty)
    /\ UNCHANGED now

StartTimer(s) ==
    /\ Idle(s)
    /\ task_start_time' = [task_start_time EXCEPT ![s] = Num(now)]
    /\ task_duration' = [task_duration EXCEPT ![s] = None]
    /\ ev' = Event(s, "start", "success")
    /\ report' = RenderReport(files)
    /\ UNCHANGED <<now, participant_id, pc, pending, files, quota>>

StartPendingMutant(start) == TRUE

\* "task_start_time" in st.session_state and st.session_state["task_start_time"]
StartPending(start) == Truthy(start)

StopTimer(s) ==
    /\ Idle(s)
    /\ IF StartPending(task_start_time[s])
       THEN /\ task_duration' = [task_duration EXCEPT ![s] = Num(now - task_start_time[s].v)]
            /\ ev' = Event(s, "stop", "success")
            /\ report' = RenderReport(files)
            /\ UNCHANGED <<participant_id, task_start_time, pc, pending, files, quota>>
       ELSE Rejected(s, Event(s, "stop", "warning"))
    /\ UNCHANGED now

SaveTask(s) ==
    /\ Idle(s)
    /\ \E task \in FormTasks, success \in FormOutcomes :
          Dependent(s, "task", TASK_CSV, task, success, DurationField(task_duration[s]))
    /\ UNCHANGED now

\* ------------------------------------------------------------ save_to_csv
OpName(csv_file) ==
    CASE csv_file = CONSENT_CSV -> "consent"
      [] csv_file = DEMOGRAPHIC_CSV -> "demographics"
      [] csv_file = TASK_CSV -> "task"
      [] OTHER -> "exit"

ResetTimerMutant(s) == UNCHANGED <<task_start_time, task_duration>>

\* del st.session_state["task_start_time"]; del st.session_state["task_duration"]
ResetTimer(s) ==
    /\ task_start_time' = [task_start_time EXCEPT ![s] = Absent]
    /\ task_duration' = [task_duration EXCEPT ![s] = Absent]

\* What follows save_to_csv in the handler: Save Task Results resets the
\* timer; every handler reports success, and the run renders the report.
AfterSave(s) ==
    /\ IF pending[s].csv_file = TASK_CSV
       THEN ResetTimer(s)
       ELSE UNCHANGED <<task_start_time, task_duration>>
    /\ pc' = [pc EXCEPT ![s] = "idle"]
    /\ pending' = [pending EXCEPT ![s] = NoPending]
    /\ ev' = Event(s, OpName(pending[s].csv_file), "success")
    /\ report' = RenderReport(files')

\* if not os.path.isfile(csv_file)
SaveIsFile(s) ==
    /\ pc[s] = "save"
    /\ pc' = [pc EXCEPT ![s] =
                IF files[pending[s].csv_file].exists THEN "append" ELSE "open_w"]
    /\ ev' = Event(s, OpName(pending[s].csv_file), "saving")
    /\ UNCHANGED <<now, session_state, pending, files, quota, report>>

\* to_csv(mode="w"): opening the file creates it, or cuts it to no lines.
SaveOpenW(s) ==
    /\ pc[s] = "open_w"
    /\ files' = [files EXCEPT ![pending[s].csv_file] = [exists |-> TRUE, lines |-> <<>>]]
    /\ pc' = [pc EXCEPT ![s] = "write_w"]
    /\ ev' = Event(s, OpName(pending[s].csv_file), "saving")
    /\ UNCHANGED <<now, session_state, pending, quota, report>>

\* to_csv(mode="w", header=True): the header and the row, written from the
\* start of the file over what other writers put there since the open.
SaveWriteW(s) ==
    /\ pc[s] = "write_w"
    /\ files' = [files EXCEPT ![pending[s].csv_file].lines =
                    Overlay(<<Header, pending[s].data_dict>>, @)]
    /\ AfterSave(s)
    /\ UNCHANGED <<now, participant_id, quota>>

\* to_csv(mode="a", header=False): one row at the end of the file.
SaveAppend(s) ==
    /\ pc[s] = "append"
    /\ files' = [files EXCEPT ![pending[s].csv_file].lines = Append(@, pending[s].data_dict)]
    /\ AfterSave(s)
    /\ UNCHANGED <<now, participant_id, quota>>

\* ------------------------------------------------------------------- Next
Handlers(s) ==
    \/ Connect(s)
    \/ EditParticipant(s)
    \/ SubmitConsent(s)
    \/ SubmitDemographics(s)
    \/ SaveTask(s)
    \/ SubmitExit(s)
    \/ SaveIsFile(s)
    \/ SaveOpenW(s)
    \/ SaveWriteW(s)
    \/ SaveAppend(s)

\* The sessions against the shared files.  The timer lives in one session's
\* own state and is left to SpecSession.
Next == \E s \in Sessions : Handlers(s)

Spec == Init /\ [][Next]_vars

\* One session, with the clock, its timer and reruns.
NextSession ==
    \/ Tick
    \/ \E s \in {"s1"} :
          \/ Handlers(s)
          \/ StartTimer(s)
          \/ StopTimer(s)
          \/ ViewReport(s)

InitSession ==
    /\ now = 1
    /\ participant_id = [s \in Sessions |-> ""]
    /\ task_start_time = [s \in Sessions |-> Absent]
    /\ task_duration = [s \in Sessions |-> Absent]
    /\ pc = [s \in Sessions |-> "idle"]
    /\ pending = [s \in Sessions |-> NoPending]
    /\ files = [d \in Datasets |-> NoFile]
    /\ quota = MaxRecords
    /\ ev = Event("", "init", "none")
    /\ report = NoReport

SpecSession == InitSession /\ [][NextSession]_vars


\* ------------------------------------------------- the report on any dataset
\* A task dataset of any content: rows other sessions wrote, or a file edited
\* outside the application.  One session reruns and renders the report.
SeqsUpTo(S, n) == UNION {[1..m -> S] : m \in 0..n}

SuccessCells == Outcomes \cup {"Other", ""}
DurationCells == {Empty, Num(0), Num(3), Text, Blank}

InitReport(rowset) ==
    /\ now = 1
    /\ participant_id = [s \in Sessions |-> IF s = "s1" THEN "P-1a2b3c4d" ELSE ""]
    /\ task_start_time = [s \in Sessions |-> Absent]
    /\ task_duration = [s \in Sessions |-> Absent]
    /\ pc = [s \in Sessions |-> "idle"]
    /\ pending = [s \in Sessions |-> NoPending]
    /\ \E rows \in SeqsUpTo(rowset, MaxRows) :
          files = [d \in Datasets |->
                     IF d = TASK_CSV THEN [exists |-> TRUE, lines |-> <<Header>> \o rows]
                     ELSE NoFile]
    /\ quota = 0
    /\ ev = Event("", "init", "none")
    /\ report = NoReport

InitSuccess ==
    InitReport({Row("P-1a2b3c4d", TRUE, t, o, Empty) :
                   t \in {0} \cup TaskNames, o \in SuccessCells})

InitDuration ==
    InitReport({Row("P-1a2b3c4d", TRUE, t, "Success", d) :
                   t \in {0} \cup TaskNames, d \in DurationCells})

NextReport == \E s \in {"s1"} : ViewReport(s)

SpecSuccess == InitSuccess /\ [][NextReport]_vars

SpecDuration == InitDuration /\ [][NextReport]_vars

\* ================================================================= claims
TaskRows == Tail(files[TASK_CSV].lines)
Rendered == ev.op = "rerun" /\ files[TASK_CSV].lines # <<>>

RECURSIVE SumOver(_, _)
\* The sum of f over a finite set of indices.
SumOver(f, S) ==
    IF S = {} THEN 0
    ELSE LET i == CHOOSE x \in S : TRUE IN f[i] + SumOver(f, S \ {i})

RowsOf(t) == {i \in 1..Len(TaskRows) : TaskRows[i].task_name = t}

\* The score of an outcome, in halves.
ScoreHalves(o) == IF o = "Success" THEN 2 ELSE IF o = "Partial" THEN 1 ELSE 0

EntriesFor(q, t) == {j \in 1..Len(q) : q[j].task_name = t}

\* C8: the report's success value of a task is the mean, over all rows of that
\* task, of Success 1.0, Partial 0.5 and 0.0 for anything else; every task
\* with a row appears exactly once, no other task appears, and the values
\* come in descending order.
C8_SuccessByTask ==
    Rendered =>
      LET q == report.success_by_task
          scores == [i \in 1..Len(TaskRows) |-> ScoreHalves(TaskRows[i].success)]
      IN  /\ \A t \in TaskNames :
                Cardinality(EntriesFor(q, t)) = IF RowsOf(t) = {} THEN 0 ELSE 1
          /\ \A j \in 1..Len(q) :
                /\ q[j].task_name \in TaskNames
                /\ q[j].mean.n = Cardinality(RowsOf(q[j].task_name))
                /\ q[j].mean.sum = SumOver(scores, RowsOf(q[j].task_name))
          /\ \A j, k \in 1..Len(q) :
                j < k => q[j].mean.sum * q[k].mean.n >= q[k].mean.sum * q[j].mean.n

\* Two tasks with different means, and a row whose outcome is missing or not
\* one of the four options.
C8_Witness ==
    /\ Rendered
    /\ Len(report.success_by_task) >= 2
    /\ report.success_by_task[1].mean.sum * report.success_by_task[2].mean.n
         # report.success_by_task[2].mean.sum * report.success_by_task[1].mean.n
    /\ \E i \in 1..Len(TaskRows) :
          TaskRows[i].success \notin Outcomes /\ TaskRows[i].task_name # 0

NumericRowsOf(t) == {i \in RowsOf(t) : TaskRows[i].duration_seconds.k = "num"}

\* C9: the report's average duration of a task is the mean over the rows of
\* the task whose duration_seconds is a number; the other rows add nothing to
\* the sum or the count, and a task without a numeric row has no entry.
C9_AvgDuration ==
    Rendered =>
      LET q == report.avg_dur
          durs == [i \in 1..Len(TaskRows) |-> TaskRows[i].duration_seconds.v]
      IN  /\ \A t \in TaskNames :
                Cardinality(EntriesFor(q, t)) = IF NumericRowsOf(t) = {} THEN 0 ELSE 1
          /\ \A j \in 1..Len(q) :
                /\ q[j].task_name \in TaskNames
                /\ q[j].mean.n = Cardinality(NumericRowsOf(q[j].task_name))
                /\ q[j].mean.sum = SumOver(durs, NumericRowsOf(q[j].task_name))

\* A task averaged over fewer rows than it has, beside a task that has rows
\* and no entry.
C9_Witness ==
    /\ Rendered
    /\ \E j \in 1..Len(report.avg_dur) :
          report.avg_dur[j].mean.n < Cardinality(RowsOf(report.avg_dur[j].task_name))
    /\ \E t \in TaskNames : RowsOf(t) # {} /\ EntriesFor(report.avg_dur, t) = {}


\* ------------------------------------------------------- consent and saves
DependentOps == {"demographics", "task", "exit"}

\* The consent dataset holds a row whose participant_id is pid.
ConsentRow(pid) ==
    \E i \in 1..Len(files[CONSENT_CSV].lines) :
       /\ ~files[CONSENT_CSV].lines[i].h
       /\ files[CONSENT_CSV].lines[i].participant_id = pid

Saving(s) == pc[s] \in {"open_w", "write_w", "append"}

\* C1: a demographic, task or exit submission made while the consent dataset
\* holds no row of the session's participant id is rejected and writes
\* nothing; a dependent dataset changes only under a submission that passed
\* that check.
C1_NoConsentNoRecord ==
    [][/\ \A s \in Sessions :
            (ev'.s = s /\ ev'.op \in DependentOps /\ pc[s] = "idle"
               /\ ~ConsentRow(participant_id[s]))
            => /\ ev'.res \in {"warning", "error"}
               /\ pc'[s] = "idle" /\ pending'[s] = NoPending
               /\ UNCHANGED <<files, quota>>
        /\ \A d \in DependentDatasets :
            files'[d] # files[d]
            => \E w \in Sessions : Saving(w) /\ pending[w].csv_file = d /\ ev'.s = w
      ]_vars

\* A submission turned away while the consent dataset holds rows of others.
C1_Witness ==
    /\ ev.op \in DependentOps /\ ev.res = "warning"
    /\ Len(files[CONSENT_CSV].lines) > 1
    /\ ~ConsentRow(participant_id[ev.s])

\* C2: once a session's consent submission has been saved, the consent check
\* holds for the session's participant id.
C2_ConsentVisible ==
    \A s \in Sessions :
       ev = Event(s, "consent", "success")
       => ~NeedsConsent(load_from_csv(files[CONSENT_CSV]), participant_id[s])

IsPrefix(p, q) == Len(p) <= Len(q) /\ \A i \in 1..Len(p) : p[i] = q[i]

\* C3: a dataset is append-only under every interleaving of sessions: every
\* line it holds stays in its place, unchanged, and the first line is the one
\* header.
C3_AppendOnly ==
    [][\A d \in Datasets :
          files[d].exists
          => files'[d].exists /\ IsPrefix(files[d].lines, files'[d].lines)]_vars

\* C10: a consent submission with the box unticked shows a warning and leaves
\* the datasets and the session as they were, ready for another try; every
\* row of the consent dataset has consent_given = true.
C10_UntickedRejected ==
    /\ [](\A i \in 1..Len(files[CONSENT_CSV].lines) :
             files[CONSENT_CSV].lines[i].consent_given)
    /\ [][\A s \in Sessions :
             (ev'.s = s /\ ev'.op = "consent" /\ ~ev'.ticked /\ pc[s] = "idle")
             => /\ ev'.res = "warning"
                /\ pc'[s] = "idle" /\ pending'[s] = NoPending
                /\ UNCHANGED <<files, session_state, quota>>]_vars

\* An unticked submission turned away in a session that then still may
\* submit, beside a consent dataset that already holds a row.
C10_Witness ==
    /\ ev.op = "consent" /\ ~ev.ticked /\ ev.res = "warning"
    /\ Len(files[CONSENT_CSV].lines) > 1
    /\ ENABLED SubmitConsent(ev.s)


\* ---------------------------------------------------------------- the timer
TaskFileRows == IF files[TASK_CSV].lines = <<>> THEN <<>> ELSE Tail(files[TASK_CSV].lines)

\* C4: the duration_seconds of a task record is the empty marker exactly when
\* no measured duration is at hand when the record is built; a measured
\* duration, zero included, is stored as a number.
C4_DurationMarker ==
    [][\A s \in Sessions :
          ev' = Event(s, "task", "accepted")
          => (pending'[s].data_dict.duration_seconds = Empty
                <=> task_duration[s].k # "num")]_vars

\* C5: a stop with no start pending (never started, or reset by a saved task
\* and not started again) shows a warning and changes nothing: not the start
\* time, not the measured duration, not the participant id, not a dataset.
C5_StopWithoutStart ==
    [][\A s \in Sessions :
          (ev'.s = s /\ ev'.op = "stop" /\ task_start_time[s] = Absent)
          => /\ ev'.res = "warning"
             /\ UNCHANGED <<session_state, files, pc, pending, quota>>]_vars

\* A stop turned away after a saved task reset the timer.
C5_Witness ==
    /\ ev = Event("s1", "stop", "warning")
    /\ task_start_time["s1"] = Absent
    /\ Len(TaskFileRows) > 0

\* C6: a task save clears the timer exactly when it succeeds.  A saved task
\* leaves no start time and no duration, and the timer is cleared by nothing
\* else; a save that is turned away, and a save still under way, leave both
\* as they were; a task record built with no duration at hand stores the
\* empty marker.
C6_SaveClearsTimer ==
    [][\A s \in Sessions :
          /\ ev' = Event(s, "task", "success")
             => task_start_time'[s] = Absent /\ task_duration'[s] = Absent
          /\ (ev'.s = s /\ ev'.op = "task" /\ ev'.res # "success")
             => UNCHANGED <<task_start_time, task_duration>>
          /\ (task_start_time[s] # Absent /\ task_start_time'[s] = Absent)
             => ev' = Event(s, "task", "success")
          /\ (ev' = Event(s, "task", "accepted") /\ task_duration[s].k # "num")
             => pending'[s].data_dict.duration_seconds = Empty
      ]_vars

\* A measured task was saved, the timer is clear, and a further save stored
\* the empty marker.
C6_Witness ==
    /\ ev = Event("s1", "task", "success")
    /\ task_start_time["s1"] = Absent /\ task_duration["s1"] = Absent
    /\ Len(TaskFileRows) = 2
    /\ TaskFileRows[1].duration_seconds.k = "num"
    /\ TaskFileRows[2].duration_seconds = Empty

\* C7: ensure_participant() is idempotent and keeps an id that is set; the
\* participant id of a session changes only in the session's first run, where
\* there was none, and in a run that follows an edit of the Participant ID
\* box; no submission, timer operation or rerun changes it.
C7_ParticipantStable ==
    /\ [](\A cur \in TypedIds :
             /\ cur # "" => EnsureParticipant(cur) = {cur}
             /\ \A id \in EnsureParticipant(cur) : EnsureParticipant(id) = {id})
    /\ [][\A s \in Sessions :
             participant_id'[s] # participant_id[s]
             => /\ ev'.s = s
                /\ ev'.op \in {"connect", "edit"}
                /\ ev'.op = "connect" => participant_id[s] = ""]_vars

\* A typed id that went through a consent submission, the timer and a rerun.
C7_Witness ==
    /\ participant_id["s1"] = "123"
    /\ ev = Event("s1", "rerun", "none")
    /\ task_duration["s1"].k = "num"
    /\ Len(files[CONSENT_CSV].lines) > 1

\* C11: stopping the timer consumes its start timestamp.  A stop that
\* succeeds leaves no start time pending and keeps the duration it measured;
\* a stop pressed while a measured duration is held (only a stop stores one,
\* and a start or a saved task removes it, so a stop succeeded and no start
\* came after it) shows the warning and leaves the stored duration as it was.
C11_StopConsumesStart ==
    [][\A s \in Sessions :
          /\ ev' = Event(s, "stop", "success")
             => /\ ~StartPending(task_start_time'[s])
                /\ task_duration'[s].k = "num"
          /\ (ev'.s = s /\ ev'.op = "stop" /\ task_duration[s].k = "num")
             => /\ ev'.res = "warning"
                /\ task_duration'[s] = task_duration[s]]_vars

====
